---- MODULE Spec2Model ----
(***************************************************************************)
(* Model of scripts/update_spamdomains.py: the domain validator regex,     *)
(* the normalizer, the line extractor, and main's fetch / aggregate /      *)
(* compare / atomic-write sequence.                                        *)
(*                                                                         *)
(* Python str values are TLA+ strings (sequences of characters); a         *)
(* character is a string of length 1.  The character universe of the model *)
(* is printable ASCII plus tab, newline, carriage return and form feed.    *)
(* Optional[str] is a sequence of length at most one: None is <<>> and a   *)
(* returned string s is <<s>>.                                             *)
(***************************************************************************)
EXTENDS Integers, Sequences, FiniteSets, TLC

VARIABLES
    mode,        \* entry point exercised: "normalize", "extract" or "main"
    input,       \* argument of the function under test
    output,      \* result of _normalize_domain or the extractor, once applied
    matched,     \* result of the _DOMAIN_RE match, once applied
    pc,          \* position of the function under test, or of main
    cfgFile,     \* content of the sources file, None when it does not exist
    cfgFlags,    \* the --source arguments
    sources,     \* main: the resolved list of source URLs
    idx,         \* main: number of sources fetched and aggregated in this run
    fetched,     \* texts the fetches of this run returned, in order
    prevFetched, \* texts the fetches of the previous run returned
    prevRc,      \* exit status of the previous run
    domains,     \* main: the accumulating set of domains
    ordered,     \* main: sorted(domains)
    before,      \* main: text read from the output file
    wpos,        \* _write_output: number of domains written so far
    wbuf,        \* _write_output: text written to f and not yet on disk
    outFile,     \* content of the output path, None when it does not exist
    tmpFile,     \* content of the path output + ".tmp", None when absent
    rc,          \* exit status of this run, Running until it ends
    branch,      \* report printed by this run: "none", "updated", "nochange"
    outAtStart,  \* content of the output path when this run started
    tmpAtStart,  \* content of the temp path when this run started
    outAfterPrev,\* content of the output path when the previous run ended
    touched,     \* something else changed the output path since then
    fetchFailed, \* a fetch of this run raised
    fetchCalls,  \* number of _fetch_url calls made in this run
    outReads,    \* number of times this run opened the output path to read
    seen         \* what the concurrent reader last read from the output path

vars == <<mode, input, output, matched, pc, cfgFile, cfgFlags, sources, idx,
          fetched, prevFetched, prevRc, domains, ordered, before, wpos, wbuf,
          outFile, tmpFile, rc, branch, outAtStart, tmpAtStart, outAfterPrev,
          touched, fetchFailed, fetchCalls, outReads, seen>>

-----------------------------------------------------------------------------
(* Characters and Python str primitives *)

Lowers == "abcdefghijklmnopqrstuvwxyz"
Uppers == "ABCDEFGHIJKLMNOPQRSTUVWXYZ"
Digits == "0123456789"
\* Printable ASCII in code point order: U+0020..U+005F and U+0061..U+007E
\* (U+0060 cannot be written in a TLA+ string and is outside the model).
PrintableLow == " !\"#$%&'()*+,-./0123456789:;<=>?@ABCDEFGHIJKLMNOPQRSTUVWXYZ[\\]^_"
PrintableHigh == "abcdefghijklmnopqrstuvwxyz{|}~"

Char(s, i) == SubSeq(s, i, i)
AllIn(s, cs) == \A i \in 1..Len(s) : Char(s, i) \in cs
CharsOf(s) == {Char(s, i) : i \in 1..Len(s)}

LowerSet == CharsOf(Lowers)
DigitSet == CharsOf(Digits)
\* str.isspace() restricted to the character universe of the model
Whitespace == {" ", "\t", "\n", "\r", "\f"}

IndexIn(table, c) == CHOOSE i \in 1..Len(table) : Char(table, i) = c

\* ord(c)
Ord(c) ==
    IF c \in CharsOf(PrintableLow) THEN 31 + IndexIn(PrintableLow, c)
    ELSE IF c \in CharsOf(PrintableHigh) THEN 96 + IndexIn(PrintableHigh, c)
    ELSE IF c = "\t" THEN 9
    ELSE IF c = "\n" THEN 10
    ELSE IF c = "\f" THEN 12
    ELSE 13

LowerChar(c) ==
    IF c \in CharsOf(Uppers) THEN Char(Lowers, IndexIn(Uppers, c)) ELSE c

RECURSIVE Lower(_)
\* str.lower(), by halves
Lower(s) ==
    IF Len(s) <= 1 THEN LowerChar(s)
    ELSE LET h == Len(s) \div 2
         IN Lower(SubSeq(s, 1, h)) \o Lower(SubSeq(s, h + 1, Len(s)))

\* s.lstrip(chars)
LStrip(s, cs) ==
    IF AllIn(s, cs) THEN ""
    ELSE LET i == CHOOSE i \in 1..Len(s) :
                    Char(s, i) \notin cs /\ AllIn(SubSeq(s, 1, i - 1), cs)
         IN SubSeq(s, i, Len(s))

\* s.rstrip(chars)
RStrip(s, cs) ==
    IF AllIn(s, cs) THEN ""
    ELSE LET i == CHOOSE i \in 1..Len(s) :
                    Char(s, i) \notin cs /\ AllIn(SubSeq(s, i + 1, Len(s)), cs)
         IN SubSeq(s, 1, i)

\* str.strip(chars); str.strip() is Strip(s, Whitespace)
Strip(s, cs) == RStrip(LStrip(s, cs), cs)

StartsWith(s, p) == Len(s) >= Len(p) /\ SubSeq(s, 1, Len(p)) = p
EndsWith(s, p) == Len(s) >= Len(p) /\ SubSeq(s, Len(s) - Len(p) + 1, Len(s)) = p
DropFirst(s, n) == SubSeq(s, n + 1, Len(s))

\* least index i >= from with s[i] in cs, or 0
FindAny(s, cs, from) ==
    IF \A i \in from..Len(s) : Char(s, i) \notin cs THEN 0
    ELSE CHOOSE i \in from..Len(s) :
            Char(s, i) \in cs /\ \A j \in from..(i - 1) : Char(s, j) \notin cs

FindChar(s, c, from) == FindAny(s, {c}, from)

\* s.split(c, 1)[0]
BeforeFirst(s, c) ==
    LET i == FindChar(s, c, 1) IN IF i = 0 THEN s ELSE SubSeq(s, 1, i - 1)

\* s.split(c): the sequence of parts, at least one
RECURSIVE SplitOn(_, _)
SplitOn(s, c) ==
    LET i == FindChar(s, c, 1) IN
    IF i = 0 THEN <<s>>
    ELSE <<SubSeq(s, 1, i - 1)>> \o SplitOn(DropFirst(s, i), c)

\* needle in s
Contains(s, needle) ==
    \E i \in 1..(Len(s) - Len(needle) + 1) :
        SubSeq(s, i, i + Len(needle) - 1) = needle

-----------------------------------------------------------------------------
(* _DOMAIN_RE, piece by piece *)

\* $ : at the end of the string, or just before a newline that ends it
EndAnchor(s, p) ==
    \/ p = Len(s)
    \/ p = Len(s) - 1 /\ Char(s, Len(s)) = "\n"

\* (?=.{1,253}$) after p consumed characters; "." matches anything but "\n"
LengthLookahead(s, p) ==
    \E k \in 1..253 :
        /\ EndAnchor(s, p + k)
        /\ \A i \in (p + 1)..(p + k) : Char(s, i) # "\n"

\* (?!-)
NotHyphenNext(s, p) == ~(p < Len(s) /\ Char(s, p + 1) = "-")

\* [a-z0-9](?:[a-z0-9-]{0,61}[a-z0-9])?
MatchesLabel(l) ==
    /\ Len(l) >= 1
    /\ Len(l) <= 1 + 61 + 1
    /\ Head(l) \in LowerSet \cup DigitSet
    /\ Char(l, Len(l)) \in LowerSet \cup DigitSet
    /\ AllIn(l, LowerSet \cup DigitSet \cup {"-"})

\* variant: a last label of class [a-z0-9], which lets an all-digit name in
MatchesTldWithDigits(s, p) ==
    \E e \in {Len(s) - 1, Len(s)} :
        /\ e - p \in 2..63
        /\ AllIn(SubSeq(s, p + 1, e), LowerSet \cup DigitSet)
        /\ EndAnchor(s, e)

\* [a-z]{2,63}$ from p to the end anchor
MatchesTld(s, p) ==
    \E e \in {Len(s) - 1, Len(s)} :
        /\ e - p \in 2..63
        /\ AllIn(SubSeq(s, p + 1, e), LowerSet)
        /\ EndAnchor(s, e)

\* (?:label\.)+[a-z]{2,63}$ after p consumed characters and n labels matched.
\* A label never contains ".", so a label that is followed by "\." ends at
\* the next "." of the string.
RECURSIVE MatchesLabels(_, _, _)
MatchesLabels(s, p, n) ==
    \/ n >= 1 /\ MatchesTld(s, p)
    \/ LET d == FindChar(s, ".", p + 1) IN
        /\ d # 0
        /\ MatchesLabel(SubSeq(s, p + 1, d - 1))
        /\ MatchesLabels(s, d, n + 1)

MatchesAfterPrefix(s, p) ==
    /\ LengthLookahead(s, p)
    /\ NotHyphenNext(s, p)
    /\ MatchesLabels(s, p, 0)

\* _DOMAIN_RE.match(s) is not None
DomainReMatch(s) ==
    \/ StartsWith(s, "*.") /\ MatchesAfterPrefix(s, 2)
    \/ MatchesAfterPrefix(s, 0)

-----------------------------------------------------------------------------
(* _is_ip *)

\* the most digits int() converts from a decimal literal before it raises
\* ValueError: the interpreter's sys.int_max_str_digits as shipped
IntMaxStrDigits == 4300

\* int() literal after whitespace and sign are removed: digits, with single
\* underscores allowed only between digits, and no more digits (leading
\* zeros counted, underscores not) than int() converts
IsIntDigits(t) ==
    /\ t # ""
    /\ AllIn(t, DigitSet \cup {"_"})
    /\ Head(t) # "_"
    /\ Char(t, Len(t)) # "_"
    /\ ~Contains(t, "__")
    /\ Cardinality({i \in 1..Len(t) : Char(t, i) # "_"}) <= IntMaxStrDigits

\* value of the digits of t, by halves, saturating at 256: _is_ip only asks
\* whether the value is at most 255
RECURSIVE DigitsValue(_)
DigitsValue(t) ==
    IF t = "" \/ t = "_" THEN 0
    ELSE IF Len(t) = 1 THEN IndexIn(Digits, t) - 1
    ELSE LET h == Len(t) \div 2
             hi == DigitsValue(SubSeq(t, 1, h))
             low == SubSeq(t, h + 1, Len(t))
             n == Cardinality({i \in 1..Len(low) : Char(low, i) # "_"})
             v == IF n = 0 THEN hi
                  ELSE IF n = 1 THEN hi * 10 + DigitsValue(low)
                  ELSE IF n = 2 THEN hi * 100 + DigitsValue(low)
                  ELSE IF hi = 0 THEN DigitsValue(low) ELSE 256
         IN IF v > 255 THEN 256 ELSE v

\* int(p): <<>> for ValueError, else <<n>>
IntOf(p) ==
    LET t == Strip(p, Whitespace)
        neg == StartsWith(t, "-")
        u == IF StartsWith(t, "-") \/ StartsWith(t, "+") THEN Tail(t) ELSE t
    IN  IF ~IsIntDigits(u) THEN <<>>
        ELSE <<IF neg THEN 0 - DigitsValue(u) ELSE DigitsValue(u)>>

_is_ip(s) ==
    LET parts == SplitOn(s, ".") IN
    IF Len(parts) # 4 THEN FALSE
    ELSE IF \E i \in 1..4 : IntOf(parts[i]) = <<>> THEN FALSE
    ELSE \A i \in 1..4 : 0 <= IntOf(parts[i])[1] /\ IntOf(parts[i])[1] <= 255

-----------------------------------------------------------------------------
(* _normalize_domain *)

None == <<>>
Some(s) == <<s>>

\* variant: a codec that already refuses a label of 63 characters
IdnaAsciiShortLabels(s) ==
    IF s = "" THEN Some("")
    ELSE LET labels == SplitOn(s, ".") IN
         IF \E i \in 1..(Len(labels) - 1) :
                ~(0 < Len(labels[i]) /\ Len(labels[i]) < 63)
         THEN None
         ELSE IF Len(labels[Len(labels)]) >= 63 THEN None
         ELSE Some(s)

\* s.encode("idna").decode("ascii") for an ASCII str: <<>> when the codec
\* raises, else the unchanged name
IdnaAscii(s) ==
    IF s = "" THEN Some("")
    ELSE LET labels == SplitOn(s, ".") IN
         IF \E i \in 1..(Len(labels) - 1) :
                ~(0 < Len(labels[i]) /\ Len(labels[i]) < 64)
         THEN None
         ELSE IF Len(labels[Len(labels)]) >= 64 THEN None
         ELSE Some(s)

\* re.sub(r"^https?://", "", s)
StripScheme(s) ==
    IF StartsWith(s, "http://") THEN DropFirst(s, 7)
    ELSE IF StartsWith(s, "https://") THEN DropFirst(s, 8)
    ELSE s

\* if s.startswith("http://") or s.startswith("https://"): ...
StripUrl(s) ==
    IF StartsWith(s, "http://") \/ StartsWith(s, "https://")
    THEN BeforeFirst(StripScheme(s), "/") ELSE s

\* if s.startswith(p): s = s[len(p):]
StripPrefix(s, p) == IF StartsWith(s, p) THEN DropFirst(s, Len(p)) ELSE s

\* if s.endswith(p): s = s[:-len(p)]
StripSuffix(s, p) ==
    IF EndsWith(s, p) THEN SubSeq(s, 1, Len(s) - Len(p)) ELSE s

\* the last gate: the regex on the encoded name
CheckEncoded(enc) ==
    IF enc = None THEN None
    ELSE IF ~DomainReMatch(enc[1]) THEN None
    ELSE Some(enc[1])

\* from "if not s or _is_ip(s)" to the end
CheckCleaned(s) ==
    IF s = "" \/ _is_ip(s) THEN None ELSE CheckEncoded(IdnaAscii(s))

\* from s.strip("\"' ") to s.strip(".")
Cleaned(s1) ==
    LET s2 == Strip(s1, {"\"", "'", " "})
        s3 == StripUrl(s2)
        s4 == BeforeFirst(s3, ":")
        s5 == StripPrefix(s4, "||")
        s6 == StripPrefix(s5, ".")
        s7 == StripPrefix(s6, "*.")
        s8 == StripSuffix(s7, "^")
    IN  Strip(s8, {"."})

NormalizeLowered(s) == IF s = "" THEN None ELSE CheckCleaned(Cleaned(s))

_normalize_domain(raw) == NormalizeLowered(Lower(Strip(raw, Whitespace)))

-----------------------------------------------------------------------------
(* _extract_domains_from_line *)

\* where re.split(r"\s+#", s, maxsplit=1) cuts: the start of the leftmost run
\* of whitespace that is followed by "#", or 0
InlineCommentAt(s) ==
    LET hits == {i \in 1..Len(s) :
                    \E j \in i..(Len(s) - 1) :
                        AllIn(SubSeq(s, i, j), Whitespace) /\ Char(s, j + 1) = "#"}
    IN IF hits = {} THEN 0 ELSE CHOOSE i \in hits : \A k \in hits : i <= k

\* re.split(r"\s+#", s, maxsplit=1)[0]
BeforeInlineComment(s) ==
    LET i == InlineCommentAt(s) IN IF i = 0 THEN s ELSE SubSeq(s, 1, i - 1)

\* s.split()
RECURSIVE SplitWhitespace(_)
SplitWhitespace(s) ==
    LET t == LStrip(s, Whitespace) IN
    IF t = "" THEN <<>>
    ELSE LET e == FindAny(t, Whitespace, 1) IN
         IF e = 0 THEN <<t>>
         ELSE <<SubSeq(t, 1, e - 1)>> \o SplitWhitespace(DropFirst(t, e))

\* re.split(r"\s+", s)
RECURSIVE ReSplitWhitespace(_)
ReSplitWhitespace(s) ==
    LET i == FindAny(s, Whitespace, 1) IN
    IF i = 0 THEN <<s>>
    ELSE <<SubSeq(s, 1, i - 1)>>
         \o ReSplitWhitespace(LStrip(DropFirst(s, i), Whitespace))

\* for tok in tokens: d = _normalize_domain(tok); if d: yield d
YieldNormalized(tokens) ==
    LET ds == [i \in 1..Len(tokens) |-> _normalize_domain(tokens[i])]
        kept == SelectSeq(ds, LAMBDA d : d # None /\ d[1] # "")
    IN [i \in 1..Len(kept) |-> kept[i][1]]

HostsMarkers == {"0.0.0.0", "127.0.0.1", "::1"}

\* variant: a hosts-file branch that takes the first token for the address
\* and skips it unseen
HostsFileDomainsSkipFirst(s) == YieldNormalized(Tail(SplitWhitespace(s)))

\* the hosts-file branch
HostsFileDomains(s) == YieldNormalized(SplitWhitespace(s))

\* the generic branch
GenericDomains(s) == YieldNormalized(ReSplitWhitespace(s))

\* list(_extract_domains_from_line(line))
_extract_domains_from_line(line) ==
    LET s == Strip(line, Whitespace) IN
    IF s = "" THEN <<>>
    ELSE IF StartsWith(s, "#") \/ StartsWith(s, "//") THEN <<>>
    ELSE LET s2 == Strip(BeforeInlineComment(s), Whitespace) IN
         IF s2 = "" THEN <<>>
         ELSE IF \E m \in HostsMarkers : Contains(s2, m)
              THEN HostsFileDomains(s2)
              ELSE GenericDomains(s2)

-----------------------------------------------------------------------------
(* Inputs of the functions under test *)

\* longest token enumerated exhaustively
MaxLen == 6
\* largest number of labels of a generated long name
MaxLabels == 4
\* largest number of pieces of a generated line
MaxPieces == 4

RECURSIVE StringsUpTo(_, _)
StringsUpTo(cs, n) ==
    IF n = 0 THEN {""}
    ELSE LET P == StringsUpTo(cs, n - 1) IN P \cup {s \o c : s \in P, c \in cs}

RECURSIVE Rep(_, _)
Rep(c, n) ==
    IF n = 0 THEN "" ELSE IF n = 1 THEN c
    ELSE Rep(c, n \div 2) \o Rep(c, n - n \div 2)

RECURSIVE JoinWith(_, _)
JoinWith(parts, sep) ==
    IF parts = <<>> THEN ""
    ELSE IF Len(parts) = 1 THEN parts[1]
    ELSE parts[1] \o sep \o JoinWith(Tail(parts), sep)

SeqsOf(S, lo, hi) == UNION {[1..k -> S] : k \in lo..hi}

\* every string over a small alphabet
ShortTokens == StringsUpTo({"a", "1", ".", "*"}, MaxLen)

\* names whose labels sit at the length limits: labels of "a", a last label
\* of "b", with and without wildcard markers and a trailing newline
LabelLens == {61, 62, 63, 64}
LongName(lens) ==
    JoinWith([i \in 1..Len(lens) |->
                 Rep(IF i = Len(lens) THEN "b" ELSE "a", lens[i])], ".")
LongTokens ==
    {pre \o LongName(lens) \o suf :
        pre \in {"", "*.", "*.*."}, lens \in SeqsOf(LabelLens, 2, MaxLabels),
        suf \in {"", "\n"}}

\* groups of value 1 padded with zeros to the most digits int() converts and
\* to one digit more
PaddedGroups ==
    {Rep("0", n - 1) \o "1" : n \in {IntMaxStrDigits, IntMaxStrDigits + 1}}

\* three to five dot-separated groups of digits, and addresses with one
\* padded group
IpTokens ==
    {JoinWith(g, ".") : g \in SeqsOf({"0", "255", "256", "007"}, 3, 5)}
    \cup {g \o ".1.1.1" : g \in PaddedGroups}
    \cup {"1.1.1." \o g : g \in PaddedGroups}

\* list-format decorations around a core
DecoratedTokens ==
    {pre \o core \o suf :
        pre \in {"", "||", ".", "*.", "*.*.", "http://", "HTTPS://", "\"", " ", "-"},
        core \in {"a.com", "x-y.org", "Ads.Example.NET", "1.2.3.4", "a..com",
                  "a-.com", "com", ""},
        suf \in {"", "^", ":80", "/p?x=1", ".", "\"", "\n", "^^"}}

TokenInputs == ShortTokens \cup LongTokens \cup IpTokens \cup DecoratedTokens

LinePieces ==
    {" ", "#", "//", "0.0.0.0", "::1", "127.0.0.1\t", "a.com", " ||b.net^"}
LineInputs ==
    {JoinWith(ps, "") : ps \in SeqsOf(LinePieces, 0, MaxPieces)}

-----------------------------------------------------------------------------
(* The functions under test, applied to one input *)

Running == -1

MainIdle ==
    /\ cfgFile = None /\ cfgFlags = <<>> /\ sources = <<>>
    /\ idx = 0 /\ fetched = <<>> /\ prevFetched = <<>> /\ prevRc = Running
    /\ domains = {} /\ ordered = <<>> /\ before = "" /\ wpos = 0 /\ wbuf = ""
    /\ outFile = None /\ tmpFile = None /\ rc = Running /\ branch = "none"
    /\ outAtStart = None /\ tmpAtStart = None /\ outAfterPrev = None
    /\ touched = FALSE /\ fetchFailed = FALSE /\ fetchCalls = 0
    /\ outReads = 0 /\ seen = None

mainVars == <<cfgFile, cfgFlags, sources, idx, fetched, prevFetched,
              prevRc, domains, ordered, before, wpos, wbuf, outFile, tmpFile, rc,
              branch, outAtStart, tmpAtStart, outAfterPrev, touched,
              fetchFailed, fetchCalls, outReads, seen>>

Normalize ==
    /\ mode = "normalize" /\ pc = "ready"
    /\ output' = _normalize_domain(input)
    /\ pc' = "normalized"
    /\ UNCHANGED <<mode, input, matched, mainVars>>

Validate ==
    /\ mode = "normalize" /\ pc = "ready"
    /\ matched' = DomainReMatch(input)
    /\ pc' = "validated"
    /\ UNCHANGED <<mode, input, output, mainVars>>

Extract ==
    /\ mode = "extract" /\ pc = "ready"
    /\ output' = _extract_domains_from_line(input)
    /\ pc' = "extracted"
    /\ UNCHANGED <<mode, input, matched, mainVars>>

InitNormalize ==
    /\ mode = "normalize" /\ input \in TokenInputs
    /\ output = None /\ matched = FALSE /\ pc = "ready" /\ MainIdle
NextNormalize == Normalize \/ Validate
SpecNormalize == InitNormalize /\ [][NextNormalize]_vars

InitExtract ==
    /\ mode = "extract" /\ input \in LineInputs
    /\ output = None /\ matched = FALSE /\ pc = "ready" /\ MainIdle
NextExtract == Extract
SpecExtract == InitExtract /\ [][NextExtract]_vars

-----------------------------------------------------------------------------
(* Helpers of main *)

\* text-mode reading: "\r\n" and "\r" become "\n" (by halves over lo..hi)
RECURSIVE TranslateNewlines(_, _, _)
TranslateNewlines(s, lo, hi) ==
    IF lo > hi THEN ""
    ELSE IF lo = hi THEN
        IF Char(s, lo) # "\r" THEN Char(s, lo)
        ELSE IF lo < Len(s) /\ Char(s, lo + 1) = "\n" THEN "" ELSE "\n"
    ELSE LET h == (lo + hi) \div 2
         IN TranslateNewlines(s, lo, h) \o TranslateNewlines(s, h + 1, hi)

\* open(path, "r").read() of a file holding s
ReadText(s) == TranslateNewlines(s, 1, Len(s))

\* text.splitlines()
RECURSIVE SplitLines(_)
SplitLines(text) ==
    LET i == FindAny(text, {"\n", "\r", "\f"}, 1) IN
    IF i = 0 THEN (IF text = "" THEN <<>> ELSE <<text>>)
    ELSE LET crlf == Char(text, i) = "\r" /\ i < Len(text)
                        /\ Char(text, i + 1) = "\n"
         IN <<SubSeq(text, 1, i - 1)>>
            \o SplitLines(DropFirst(text, IF crlf THEN i + 1 ELSE i))

\* the loop of _read_sources_file over the lines of the file
KeepSourceLines(lines) ==
    LET stripped == [i \in 1..Len(lines) |-> Strip(lines[i], Whitespace)]
    IN SelectSeq(stripped, LAMBDA s : ~(s = "" \/ StartsWith(s, "#")))

\* _read_sources_file of a file holding content
_read_sources_file(content) == KeepSourceLines(SplitOn(ReadText(content), "\n"))

\* the domains the lines of one fetched text add
DomainsOfLines(lines) ==
    UNION {LET ds == _extract_domains_from_line(lines[k])
           IN {ds[i] : i \in 1..Len(ds)} : k \in 1..Len(lines)}

\* a < b for Python str: by code point, a proper prefix first
StrLess(a, b) ==
    \E i \in 1..(Len(a) + 1) :
        /\ i <= Len(b)
        /\ SubSeq(a, 1, i - 1) = SubSeq(b, 1, i - 1)
        /\ \/ i = Len(a) + 1
           \/ Ord(Char(a, i)) < Ord(Char(b, i))

\* variant: descending order, as sorted(S, reverse=True) gives
SortedDescending(S) ==
    [i \in 1..Cardinality(S) |->
        CHOOSE x \in S : Cardinality({y \in S : StrLess(x, y)}) = i - 1]

\* sorted(S): the i-th element has exactly i - 1 smaller ones
Sorted(S) ==
    [i \in 1..Cardinality(S) |->
        CHOOSE x \in S : Cardinality({y \in S : StrLess(y, x)}) = i - 1]

\* variant: the joined text without the final newline _write_output writes
AfterTextNoFinalNewline(ord) == JoinWith(ord, "\n")

\* "\n".join(ordered) + ("\n" if ordered else "")
AfterText(ord) == JoinWith(ord, "\n") \o (IF ord # <<>> THEN "\n" ELSE "")

\* s.encode("utf-8") for the characters of the model: one byte each
Utf8(s) == [i \in 1..Len(s) |-> Ord(Char(s, i))]

\* _sha256_text: the digest stands for the bytes it was computed from
\* (SHA-256 taken as collision free)
_sha256_text(s) == <<"sha256", Utf8(s)>>

-----------------------------------------------------------------------------
(* main, run by run, beside a reader of the output path *)

\* largest number of --source arguments
MaxFlags == 1

SourcesFileChoices ==
    {None, Some("# none yet\n\n   \n"), Some("# mirrors\r\n\nhttp://u1\n")}
FlagChoices == SeqsOf({"http://u3"}, 0, MaxFlags)
\* what a fetch of each URL may return
TextsOf(url) ==
    IF url = "http://u1"
    THEN {"b.org\na.com\n", "# nothing\n1.2.3.4\n"}
    ELSE {"0.0.0.0 a.com c.net # note\r\n# comment\n||ads.net^ *.*.w.com\n",
          "# nothing\n1.2.3.4\n"}
TextChoices == TextsOf("http://u1") \cup TextsOf("http://u3")
OutFileChoices ==
    {None, Some("a.com\r\nb.org\r\n"), Some("old.example\n")}

\* the domains each text adds: text.splitlines() through the extractor
DomainsOfText == [t \in TextChoices |-> DomainsOfLines(SplitLines(t))]

InitMain ==
    /\ mode = "main" /\ input = "" /\ output = None /\ matched = FALSE
    /\ pc = "start"
    /\ cfgFile \in SourcesFileChoices /\ cfgFlags \in FlagChoices
    /\ outFile \in OutFileChoices /\ tmpFile = None
    /\ outAtStart = outFile /\ tmpAtStart = tmpFile /\ outAfterPrev = None
    /\ sources = <<>> /\ idx = 0 /\ fetched = <<>> /\ prevFetched = <<>>
    /\ prevRc = Running /\ domains = {} /\ ordered = <<>> /\ before = ""
    /\ wpos = 0 /\ wbuf = "" /\ rc = Running /\ branch = "none" /\ touched = FALSE
    /\ fetchFailed = FALSE /\ fetchCalls = 0 /\ outReads = 0 /\ seen = None

cfgVars == <<mode, input, output, matched, cfgFile, cfgFlags, prevFetched, prevRc,
             outAtStart, tmpAtStart, outAfterPrev, touched>>

\* variant: source resolution without the "if not sources" exit
ResolveUnchecked ==
    /\ mode = "main" /\ pc = "start"
    /\ sources' = (IF cfgFile # None THEN _read_sources_file(cfgFile[1])
                   ELSE <<>>) \o cfgFlags
    /\ rc' = rc /\ pc' = "fetch"
    /\ domains' = {}
    /\ UNCHANGED <<cfgVars, idx, fetched, ordered, before, wpos, wbuf, outFile,
                   tmpFile, branch, fetchFailed, fetchCalls, outReads, seen>>

\* argument handling and source resolution, up to "return 2"
Resolve ==
    /\ mode = "main" /\ pc = "start"
    /\ sources' = (IF cfgFile # None THEN _read_sources_file(cfgFile[1])
                   ELSE <<>>) \o cfgFlags
    /\ IF sources' = <<>>
       THEN rc' = 2 /\ pc' = "done"
       ELSE rc' = rc /\ pc' = "fetch"
    /\ domains' = {}
    /\ UNCHANGED <<cfgVars, idx, fetched, ordered, before, wpos, wbuf, outFile,
                   tmpFile, branch, fetchFailed, fetchCalls, outReads, seen>>

\* one iteration of the source loop whose fetch returns a text
FetchOk ==
    /\ mode = "main" /\ pc = "fetch" /\ idx < Len(sources)
    /\ \E text \in TextsOf(sources[idx + 1]) :
        /\ fetched' = Append(fetched, text)
        /\ domains' = domains \cup DomainsOfText[text]
    /\ fetchCalls' = fetchCalls + 1
    /\ idx' = idx + 1
    /\ UNCHANGED <<cfgVars, pc, sources, ordered, before, wpos, wbuf, outFile,
                   tmpFile, rc, branch, fetchFailed, outReads, seen>>

\* variant: the loop catches the exception of a fetch and goes on to the
\* next source
FetchFailSwallowed ==
    /\ mode = "main" /\ pc = "fetch" /\ idx < Len(sources)
    /\ fetchCalls' = fetchCalls + 1
    /\ fetchFailed' = TRUE
    /\ idx' = idx + 1
    /\ UNCHANGED <<cfgVars, pc, rc, sources, fetched, domains, ordered, before,
                   wpos, wbuf, outFile, tmpFile, branch, outReads, seen>>

\* one iteration of the source loop whose fetch raises: nothing in main
\* catches it, the interpreter ends the process with status 1
FetchFail ==
    /\ mode = "main" /\ pc = "fetch" /\ idx < Len(sources)
    /\ fetchCalls' = fetchCalls + 1
    /\ fetchFailed' = TRUE
    /\ pc' = "crashed"
    /\ rc' = 1
    /\ UNCHANGED <<cfgVars, sources, idx, fetched, domains, ordered, before,
                   wpos, wbuf, outFile, tmpFile, branch, outReads, seen>>

\* ordered = sorted(domains)
Sort ==
    /\ mode = "main" /\ pc = "fetch" /\ idx = Len(sources)
    /\ ordered' = Sorted(domains)
    /\ pc' = "read"
    /\ UNCHANGED <<cfgVars, sources, idx, fetched, domains, before, wpos, wbuf,
                   outFile, tmpFile, rc, branch, fetchFailed, fetchCalls,
                   outReads, seen>>

\* before = "" or the text of the existing output file
ReadBefore ==
    /\ mode = "main" /\ pc = "read"
    /\ IF outFile # None
       THEN before' = ReadText(outFile[1]) /\ outReads' = outReads + 1
       ELSE before' = "" /\ outReads' = outReads
    /\ pc' = "compare"
    /\ UNCHANGED <<cfgVars, sources, idx, fetched, domains, ordered, wpos, wbuf,
                   outFile, tmpFile, rc, branch, fetchFailed, fetchCalls, seen>>

\* the digest comparison; the "No changes" branch returns 0
Compare ==
    /\ mode = "main" /\ pc = "compare"
    /\ IF _sha256_text(before) # _sha256_text(AfterText(ordered))
       THEN pc' = "open" /\ UNCHANGED <<rc, branch>>
       ELSE pc' = "done" /\ rc' = 0 /\ branch' = "nochange"
    /\ UNCHANGED <<cfgVars, sources, idx, fetched, domains, ordered, before,
                   wpos, wbuf, outFile, tmpFile, fetchFailed, fetchCalls, outReads,
                   seen>>

\* variant: the lines are written in place, open(path, "w") truncating the
\* output path itself
WriteOpenInPlace ==
    /\ mode = "main" /\ pc = "open"
    /\ tmpFile' = Some("")
    /\ outFile' = Some("")
    /\ wpos' = 0 /\ wbuf' = ""
    /\ pc' = "write"
    /\ UNCHANGED <<cfgVars, sources, idx, fetched, domains, ordered, before,
                   rc, branch, fetchFailed, fetchCalls, outReads, seen>>

\* _write_output: open(tmp, "w") creates or truncates the temp path
WriteOpen ==
    /\ mode = "main" /\ pc = "open"
    /\ tmpFile' = Some("")
    /\ wpos' = 0 /\ wbuf' = ""
    /\ pc' = "write"
    /\ UNCHANGED <<cfgVars, sources, idx, fetched, domains, ordered, before,
                   outFile, rc, branch, fetchFailed, fetchCalls, outReads, seen>>

\* _write_output: one iteration of the loop, f.write(d); f.write("\n").
\* The text goes to the buffer of f: the texts of the model are shorter than
\* that buffer, so the temp path on disk keeps what open left there
WriteLine ==
    /\ mode = "main" /\ pc = "write" /\ wpos < Len(ordered)
    /\ wbuf' = wbuf \o ordered[wpos + 1] \o "\n"
    /\ wpos' = wpos + 1
    /\ UNCHANGED <<cfgVars, pc, sources, idx, fetched, domains, ordered,
                   before, outFile, tmpFile, rc, branch, fetchFailed,
                   fetchCalls, outReads, seen>>

\* _write_output: the with block ends, closing f flushes the buffer to the
\* temp path
WriteClose ==
    /\ mode = "main" /\ pc = "write" /\ wpos = Len(ordered)
    /\ tmpFile' = Some(tmpFile[1] \o wbuf)
    /\ wbuf' = ""
    /\ pc' = "replace"
    /\ UNCHANGED <<cfgVars, sources, idx, fetched, domains, ordered, before,
                   wpos, outFile, rc, branch, fetchFailed, fetchCalls,
                   outReads, seen>>

\* _write_output: os.replace(tmp, path), after which it returns to main
Replace ==
    /\ mode = "main" /\ pc = "replace"
    /\ outFile' = tmpFile
    /\ tmpFile' = None
    /\ pc' = "report"
    /\ UNCHANGED <<cfgVars, sources, idx, fetched, domains, ordered, before,
                   wpos, wbuf, rc, branch, fetchFailed, fetchCalls, outReads,
                   seen>>

\* main reports "Updated" and returns 0
ReportUpdated ==
    /\ mode = "main" /\ pc = "report"
    /\ branch' = "updated"
    /\ rc' = 0
    /\ pc' = "done"
    /\ UNCHANGED <<cfgVars, sources, idx, fetched, domains, ordered, before,
                   wpos, wbuf, outFile, tmpFile, fetchFailed, fetchCalls,
                   outReads, seen>>

\* another process reads the whole output path
ReaderRead ==
    /\ mode = "main"
    /\ seen' = Some(outFile)
    /\ seen' # seen
    /\ UNCHANGED <<mode, input, output, matched, pc, cfgFile, cfgFlags, sources,
                   idx, fetched, prevFetched, prevRc, domains, ordered, before,
                   wpos, wbuf, outFile, tmpFile, rc, branch, outAtStart, tmpAtStart,
                   outAfterPrev, touched, fetchFailed, fetchCalls, outReads>>

\* the script is run again with the same arguments; newOut is the content of
\* the output path when that run starts
StartRun(newOut) ==
    /\ mode = "main" /\ pc \in {"done", "crashed"}
    /\ prevFetched' = fetched /\ prevRc' = rc /\ outAfterPrev' = outFile
    /\ outFile' = newOut /\ touched' = (newOut # outFile)
    /\ outAtStart' = newOut /\ tmpAtStart' = tmpFile
    /\ pc' = "start" /\ sources' = <<>> /\ idx' = 0 /\ fetched' = <<>>
    /\ domains' = {} /\ ordered' = <<>> /\ before' = "" /\ wpos' = 0 /\ wbuf' = ""
    /\ rc' = Running /\ branch' = "none" /\ fetchFailed' = FALSE
    /\ fetchCalls' = 0 /\ outReads' = 0 /\ seen' = None
    /\ UNCHANGED <<mode, input, output, matched, cfgFile, cfgFlags, tmpFile>>

\* the next run starts on the output path as the previous run left it
NextRun == StartRun(outFile)

\* something else rewrote or removed the output path in between
NextRunTouched ==
    \E c \in {None, Some("old.example\n")} : c # outFile /\ StartRun(c)

Init == InitMain
Next ==
    \/ Resolve \/ FetchOk \/ FetchFail \/ Sort \/ ReadBefore \/ Compare
    \/ WriteOpen \/ WriteLine \/ WriteClose \/ Replace \/ ReportUpdated
    \/ ReaderRead
    \/ NextRun \/ NextRunTouched
Spec == Init /\ [][Next]_vars

-----------------------------------------------------------------------------
(* Vocabulary of the properties, stated apart from the code *)

\* the maximal runs of non-whitespace characters of s, left to right
WordsOf(s) ==
    LET starts == {i \in 1..Len(s) :
                      /\ Char(s, i) \notin Whitespace
                      /\ (i = 1 \/ Char(s, i - 1) \in Whitespace)}
        endOf(i) == CHOOSE j \in i..Len(s) :
                      /\ AllIn(SubSeq(s, i, j), {c \in CharsOf(s) : c \notin Whitespace})
                      /\ (j = Len(s) \/ Char(s, j + 1) \in Whitespace)
        nth(k) == CHOOSE i \in starts :
                      Cardinality({i2 \in starts : i2 < i}) = k - 1
    IN [k \in 1..Cardinality(starts) |-> SubSeq(s, nth(k), endOf(nth(k)))]

\* the line up to the first "#" that follows a whitespace character
WithoutInlineComment(line) ==
    LET cuts == {k \in 2..Len(line) :
                    Char(line, k) = "#" /\ Char(line, k - 1) \in Whitespace}
    IN IF cuts = {} THEN line
       ELSE SubSeq(line, 1, (CHOOSE k \in cuts : \A k2 \in cuts : k <= k2) - 1)

IsCommentLine(line) ==
    \/ StartsWith(Strip(line, Whitespace), "#")
    \/ StartsWith(Strip(line, Whitespace), "//")

\* a before b in lexicographic order of code points
LexBefore(a, b) ==
    LET n == IF Len(a) < Len(b) THEN Len(a) ELSE Len(b)
        diff == {i \in 1..n : Char(a, i) # Char(b, i)}
    IN IF diff = {} THEN Len(a) < Len(b)
       ELSE LET d == CHOOSE i \in diff : \A i2 \in diff : i <= i2
            IN Ord(Char(a, d)) < Ord(Char(b, d))

\* decimal numeral of n in 0..999 without leading zeros
Numeral(n) ==
    LET dig(k) == Char(Digits, k + 1) IN
    IF n < 10 THEN dig(n)
    ELSE IF n < 100 THEN dig(n \div 10) \o dig(n % 10)
    ELSE dig(n \div 100) \o dig((n \div 10) % 10) \o dig(n % 10)

\* a decimal integer in 0..255, leading zeros allowed
IsOctet(g) ==
    /\ g # "" /\ AllIn(g, DigitSet)
    /\ \/ AllIn(g, {"0"})
       \/ \E n \in 1..255 : LStrip(g, {"0"}) = Numeral(n)

\* exactly four dot-separated groups, each a decimal integer in 0..255
IsDottedIPv4(s) ==
    LET groups == SplitOn(s, ".")
    IN Len(groups) = 4 /\ \A i \in 1..4 : IsOctet(groups[i])

HasLongLabel(s) ==
    LET labels == SplitOn(s, ".") IN \E i \in 1..Len(labels) : Len(labels[i]) > 63

IsLowercaseAscii(s) == AllIn(s, {c \in CharsOf(s) : c \notin CharsOf(Uppers)})

Elements(seq) == {seq[i] : i \in 1..Len(seq)}

\* what _normalize_domain returns for the words of each text
NormalizedWords ==
    [t \in TextChoices |-> {_normalize_domain(w) : w \in Elements(WordsOf(t))}]

AfterFetches ==
    pc \in {"read", "compare", "open", "write", "replace", "report", "done"}

\* os.replace of this run has put the new list on the output path
Replaced == pc = "report" \/ (pc = "done" /\ branch = "updated")

\* every domain followed by a newline
FullContent(doms) == JoinWith([i \in 1..Len(doms) |-> doms[i] \o "\n"], "")

-----------------------------------------------------------------------------
(* Properties *)

\* the second of two successful runs got the texts the first one got, and
\* nothing else touched the output path in between
SecondRunSameTexts ==
    /\ mode = "main" /\ prevRc = 0 /\ ~touched
    /\ AfterFetches /\ fetched = prevFetched

\* C1: a second run over the same source texts, with the output path left as
\* the first run left it, never opens the temp file or replaces the output:
\* it ends in the "No changes" branch with status 0 and the output path and
\* the temp path hold what they held when the first run ended.
C1_SecondRunNoChanges ==
    SecondRunSameTexts =>
        /\ pc \notin {"open", "write", "replace", "report"}
        /\ outFile = outAfterPrev
        /\ tmpFile = tmpAtStart
        /\ pc = "done" => branch = "nochange" /\ rc = 0

C1_Witness ==
    /\ SecondRunSameTexts /\ pc = "done" /\ branch = "nochange"
    /\ Len(ordered) >= 2 /\ outFile = Some(FullContent(ordered))

\* C2: the list main emits is strictly ascending in code point order (so it
\* repeats nothing), holds exactly the aggregated domains, each of them the
\* result of _normalize_domain on a word of a fetched text, matching
\* _DOMAIN_RE and not a dotted IPv4 address; a rewritten output file holds
\* these entries one per line.
C2_OutputSortedUniqueValid ==
    (mode = "main" /\ AfterFetches /\ sources # <<>>) =>
        /\ \A i \in 1..(Len(ordered) - 1) : LexBefore(ordered[i], ordered[i + 1])
        /\ Elements(ordered) = domains
        /\ \A i \in 1..Len(ordered) :
            /\ DomainReMatch(ordered[i])
            /\ ~IsDottedIPv4(ordered[i])
            /\ \E k \in 1..Len(fetched) :
                    Some(ordered[i]) \in NormalizedWords[fetched[k]]
        /\ Replaced => outFile = Some(FullContent(ordered))

C2_Witness ==
    /\ mode = "main" /\ pc = "done" /\ branch = "updated"
    /\ Len(fetched) = 2 /\ fetched[1] # fetched[2]
    /\ \E d \in domains : \A k \in 1..2 : d \in DomainsOfText[fetched[k]]
    /\ Len(ordered) >= 4

\* C3 as stated: _normalize_domain returns every lowercase ASCII string that
\* matches _DOMAIN_RE unchanged.
C3_IdentityOnGrammar ==
    (mode = "normalize" /\ pc = "normalized"
        /\ IsLowercaseAscii(input) /\ DomainReMatch(input))
    => output = Some(input)

\* C3 amended: _normalize_domain returns unchanged every lowercase ASCII
\* string that matches _DOMAIN_RE, does not begin with the wildcard marker
\* "*." and does not end with a newline.
C3_IdentityOnBareDomains ==
    (mode = "normalize" /\ pc = "normalized"
        /\ IsLowercaseAscii(input) /\ DomainReMatch(input)
        /\ ~StartsWith(input, "*.") /\ ~EndsWith(input, "\n"))
    => output = Some(input)

C3_Witness ==
    /\ mode = "normalize" /\ pc = "normalized"
    /\ DomainReMatch(input) /\ ~StartsWith(input, "*.")
    /\ Len(input) = 253 /\ output = Some(input)

\* C4: once a fetch has raised, the run is over with a status other than 0,
\* exactly the sources up to the failing one were fetched, and the output
\* path and the temp path hold what they held when the run started.
C4_FetchFailureAborts ==
    (mode = "main" /\ fetchFailed) =>
        /\ pc = "crashed"
        /\ rc # 0 /\ rc # Running
        /\ fetchCalls = Len(fetched) + 1
        /\ outFile = outAtStart
        /\ tmpFile = tmpAtStart

C4_Witness ==
    /\ mode = "main" /\ fetchFailed /\ pc = "crashed"
    /\ Len(fetched) >= 1 /\ domains # {}
    /\ outAtStart # None

\* C5: a string with a label of more than 63 characters, or of more than
\* 253 characters overall, does not match _DOMAIN_RE, with or without a
\* leading "*.".
C5_LengthLimits ==
    (mode = "normalize" /\ pc = "validated"
        /\ (HasLongLabel(input) \/ Len(input) > 253))
    => matched = FALSE

\* C6: _normalize_domain never returns a value that begins with "*.".
C6_NoWildcardReturned ==
    (mode = "normalize" /\ pc = "normalized" /\ output # None)
    => ~StartsWith(output[1], "*.")

\* C7: for a dotted IPv4 address (four groups, each a decimal integer in
\* 0..255) _normalize_domain returns None and _DOMAIN_RE does not match.
C7_IPv4Rejected ==
    (mode = "normalize" /\ IsDottedIPv4(input)) =>
        /\ pc = "normalized" => output = None
        /\ pc = "validated" => matched = FALSE

\* an address with a group of more digits than int() converts: _is_ip is
\* false of it and None comes from the codec
C7_Witness ==
    /\ mode = "normalize" /\ pc = "normalized"
    /\ IsDottedIPv4(input) /\ ~_is_ip(input) /\ output = None

\* the words of a line once its inline comment is cut off
LineWords(line) == WordsOf(WithoutInlineComment(Strip(line, Whitespace)))

\* C8: for a non-comment line that contains 0.0.0.0, 127.0.0.1 or ::1 the
\* extractor yields, in the order of the words of the line (inline comment
\* cut off), the result of _normalize_domain for each word it accepts and
\* nothing else: no IP address is yielded and every word that is a valid
\* bare domain is.
C8_HostsLineYield ==
    (mode = "extract" /\ pc = "extracted" /\ ~IsCommentLine(input)
        /\ \E m \in HostsMarkers : Contains(input, m))
    =>  LET words == LineWords(input)
            accepted == SelectSeq(words, LAMBDA w : _normalize_domain(w) # None)
        IN  /\ Len(output) = Len(accepted)
            /\ \A i \in 1..Len(accepted) :
                    Some(output[i]) = _normalize_domain(accepted[i])
            /\ \A i \in 1..Len(output) :
                    ~IsDottedIPv4(output[i]) /\ output[i] \notin HostsMarkers
            /\ \A i \in 1..Len(words) :
                    (DomainReMatch(words[i]) /\ ~StartsWith(words[i], "*."))
                    => words[i] \in Elements(output)

C8_Witness ==
    /\ mode = "extract" /\ pc = "extracted"
    /\ StartsWith(input, "0.0.0.0 ")
    /\ output = <<"a.com", "b.net">>

\* no source is configured: no --source argument, and the sources file is
\* absent or holds only blank lines and lines that start with "#"
NoSourceConfigured ==
    /\ cfgFlags = <<>>
    /\ \/ cfgFile = None
       \/ \A l \in Elements(SplitLines(cfgFile[1])) :
             Strip(l, Whitespace) = "" \/ StartsWith(Strip(l, Whitespace), "#")

\* C9: with no source configured main ends with status 2 without a fetch
\* and without reading, writing or replacing the output path; a run with a
\* source whose fetches all succeed ends with status 0, rewritten or not.
C9_ExitCodes ==
    (mode = "main" /\ pc # "start") =>
        /\ NoSourceConfigured =>
            /\ pc = "done" /\ rc = 2 /\ branch = "none"
            /\ fetchCalls = 0 /\ outReads = 0
            /\ outFile = outAtStart /\ tmpFile = tmpAtStart
        /\ (~NoSourceConfigured /\ pc = "done") =>
            /\ rc = 0 /\ branch \in {"updated", "nochange"}

C9_Witness ==
    /\ mode = "main" /\ pc = "done" /\ rc = 2
    /\ cfgFile # None /\ outFile # None

\* C10: whatever the reader read from the output path during a run is the
\* complete content the path had when the run started or, once the run has
\* replaced it, the complete new content; the output path itself never holds
\* anything else, the lines being written to the temp path.
C10_ReaderSeesWholeFile ==
    mode = "main" =>
        LET whole == {outAtStart} \cup
                     (IF Replaced THEN {Some(FullContent(ordered))} ELSE {})
        IN  /\ outFile \in whole
            /\ ~Replaced => outFile = outAtStart
            /\ seen # None => seen[1] \in whole

C10_Witness ==
    /\ mode = "main" /\ pc = "write"
    /\ 0 < wpos /\ wpos < Len(ordered)
    /\ tmpFile = Some("") /\ wbuf # "" /\ wbuf # FullContent(ordered)
    /\ seen = Some(outAtStart) /\ outAtStart # None

====
